---------------------------- MODULE Spec2Model ----------------------------
(***************************************************************************)
(* A model of utils.py of NeuralFactorGraph: the frozen tag-set codec,     *)
(* the corpus loader, the length sort/filter, the two batch schedulers,    *)
(* the log-space max-plus kernel and the F1 scorer.                        *)
(*                                                                         *)
(* Each routine has its own specification (SpecCodec, SpecConll, ...).     *)
(* The variables of the routines a specification does not run keep the     *)
(* value Idle.                                                             *)
(***************************************************************************)
EXTENDS Integers, Sequences, FiniteSets, TLC

VARIABLES
    \* freeze_dict / unfreeze_dict
    c_pc, c_obj, c_frozen, c_out,
    \* read_conll: the arguments, the directories, the loop's locals, the results
    rc_pc, langs, train_or_dev, test, tgt_size, listdir, corpus, lang_idx,
    filepath, opened, annot_sents, unique,
    \* sortbylength
    sb_pc, data, lang_ids, maxlen, sort_order, sorted_data, sorted_lang_ids,
    \* get_train_order
    gto_pc, training_data, gto_batch_size, startIdx, lengths, gto_k, start_idxs,
    end_idxs, prev_length, batch_counter, gto_ret,
    \* make_bucket_batches
    mb_pc, data_collections, feature_wise_tgt_tags, mb_batch_size, shuffle,
    tot_items, buckets, bucket_keys, batches,
    \* logMax
    lm_pc, lm_a, lm_b, redAxis, lm_C,
    \* computeF1
    f_pc, hyps, golds, f1_precision_scores, f1_precision_total, f1_recall_scores,
    f1_recall_total, f1_micro_precision, f1_micro_recall, f1_scores, f1_average,
    f1_micro_score, f_line

\* the value of the variables of a routine that is not running
Idle == "idle"

vars_codec ==
    <<c_pc, c_obj, c_frozen, c_out>>

vars_conll ==
    <<rc_pc, langs, train_or_dev, test, tgt_size, listdir, corpus, lang_idx,
      filepath, opened, annot_sents, unique>>

vars_sort ==
    <<sb_pc, data, lang_ids, maxlen, sort_order, sorted_data, sorted_lang_ids>>

vars_order ==
    <<gto_pc, training_data, gto_batch_size, startIdx, lengths, gto_k, start_idxs,
      end_idxs, prev_length, batch_counter, gto_ret>>

vars_bucket ==
    <<mb_pc, data_collections, feature_wise_tgt_tags, mb_batch_size, shuffle,
      tot_items, buckets, bucket_keys, batches>>

vars_logmax ==
    <<lm_pc, lm_a, lm_b, redAxis, lm_C>>

vars_f1 ==
    <<f_pc, hyps, golds, f1_precision_scores, f1_precision_total, f1_recall_scores,
      f1_recall_total, f1_micro_precision, f1_micro_recall, f1_scores, f1_average,
      f1_micro_score, f_line>>

vars ==
    <<vars_codec, vars_conll, vars_sort, vars_order, vars_bucket, vars_logmax,
      vars_f1>>

Idle_codec ==
    /\ c_pc = Idle /\ c_obj = Idle /\ c_frozen = Idle /\ c_out = Idle

Idle_conll ==
    /\ rc_pc = Idle /\ langs = Idle /\ train_or_dev = Idle /\ test = Idle
    /\ tgt_size = Idle /\ listdir = Idle /\ corpus = Idle /\ lang_idx = Idle
    /\ filepath = Idle /\ opened = Idle /\ annot_sents = Idle /\ unique = Idle

Idle_sort ==
    /\ sb_pc = Idle /\ data = Idle /\ lang_ids = Idle /\ maxlen = Idle
    /\ sort_order = Idle /\ sorted_data = Idle /\ sorted_lang_ids = Idle

Idle_order ==
    /\ gto_pc = Idle /\ training_data = Idle /\ gto_batch_size = Idle
    /\ startIdx = Idle /\ lengths = Idle /\ gto_k = Idle /\ start_idxs = Idle
    /\ end_idxs = Idle /\ prev_length = Idle /\ batch_counter = Idle
    /\ gto_ret = Idle

Idle_bucket ==
    /\ mb_pc = Idle /\ data_collections = Idle /\ feature_wise_tgt_tags = Idle
    /\ mb_batch_size = Idle /\ shuffle = Idle /\ tot_items = Idle
    /\ buckets = Idle /\ bucket_keys = Idle /\ batches = Idle

Idle_logmax ==
    /\ lm_pc = Idle /\ lm_a = Idle /\ lm_b = Idle /\ redAxis = Idle
    /\ lm_C = Idle

Idle_f1 ==
    /\ f_pc = Idle /\ hyps = Idle /\ golds = Idle /\ f1_precision_scores = Idle
    /\ f1_precision_total = Idle /\ f1_recall_scores = Idle
    /\ f1_recall_total = Idle /\ f1_micro_precision = Idle
    /\ f1_micro_recall = Idle /\ f1_scores = Idle /\ f1_average = Idle
    /\ f1_micro_score = Idle /\ f_line = Idle

\* SpecX runs one routine: the others are idle and stay so
OthersIdle_codec ==
    /\ Idle_conll /\ Idle_sort /\ Idle_order /\ Idle_bucket /\ Idle_logmax
    /\ Idle_f1

others_codec ==
    <<vars_conll, vars_sort, vars_order, vars_bucket, vars_logmax, vars_f1>>

OthersIdle_conll ==
    /\ Idle_codec /\ Idle_sort /\ Idle_order /\ Idle_bucket /\ Idle_logmax
    /\ Idle_f1

others_conll ==
    <<vars_codec, vars_sort, vars_order, vars_bucket, vars_logmax, vars_f1>>

OthersIdle_sort ==
    /\ Idle_codec /\ Idle_conll /\ Idle_order /\ Idle_bucket /\ Idle_logmax
    /\ Idle_f1

others_sort ==
    <<vars_codec, vars_conll, vars_order, vars_bucket, vars_logmax, vars_f1>>

OthersIdle_order ==
    /\ Idle_codec /\ Idle_conll /\ Idle_sort /\ Idle_bucket /\ Idle_logmax
    /\ Idle_f1

others_order ==
    <<vars_codec, vars_conll, vars_sort, vars_bucket, vars_logmax, vars_f1>>

OthersIdle_bucket ==
    /\ Idle_codec /\ Idle_conll /\ Idle_sort /\ Idle_order /\ Idle_logmax
    /\ Idle_f1

others_bucket ==
    <<vars_codec, vars_conll, vars_sort, vars_order, vars_logmax, vars_f1>>

OthersIdle_logmax ==
    /\ Idle_codec /\ Idle_conll /\ Idle_sort /\ Idle_order /\ Idle_bucket
    /\ Idle_f1

others_logmax ==
    <<vars_codec, vars_conll, vars_sort, vars_order, vars_bucket, vars_f1>>

OthersIdle_f1 ==
    /\ Idle_codec /\ Idle_conll /\ Idle_sort /\ Idle_order /\ Idle_bucket
    /\ Idle_logmax

others_f1 ==
    <<vars_codec, vars_conll, vars_sort, vars_order, vars_bucket, vars_logmax>>

(***************************************************************************)
(* Python values.  A value is a record [t, v]: t is the Python type, v the *)
(* payload.  A dict is the sequence of its <<key, value>> items in         *)
(* insertion order, keys distinct; a tuple of pairs (what freeze_dict      *)
(* builds) is the sequence of its <<key, value>> pairs.                    *)
(***************************************************************************)
PyStr(s) == [t |-> "str", v |-> s]

PyTrue == [t |-> "bool", v |-> TRUE]

PyDict(items) == [t |-> "dict", v |-> items]

PyTuple(pairs) == [t |-> "tuple", v |-> pairs]

EmptyDict == PyDict(<<>>)

DictKeys(d) == {d.v[i][1] : i \in 1..Len(d.v)}

\* d[k], for k a key of d
DictGet(d, k) == d.v[CHOOSE i \in 1..Len(d.v) : d.v[i][1] = k][2]

\* d[k] = val: a present key keeps its place, a new key goes last
DictSet(d, k, val) ==
    IF k \in DictKeys(d)
    THEN PyDict([i \in 1..Len(d.v) |-> IF d.v[i][1] = k THEN <<k, val>> ELSE d.v[i]])
    ELSE PyDict(Append(d.v, <<k, val>>))

\* del d[k]
DictDel(d, k) == PyDict(SelectSeq(d.v, LAMBDA it : it[1] # k))

\* dict(pairs): the pairs inserted left to right
RECURSIVE DictFromPairs(_)
DictFromPairs(pairs) ==
    IF pairs = <<>> THEN EmptyDict
    ELSE LET n == Len(pairs)
         IN DictSet(DictFromPairs(SubSeq(pairs, 1, n - 1)), pairs[n][1], pairs[n][2])

\* Python's ==: dicts compare by content whatever the insertion order, tuples
\* element by element, values of different types are unequal.
RECURSIVE PyEq(_, _)
PyEq(a, b) ==
    IF a.t # b.t THEN FALSE
    ELSE IF a.t = "dict"
         THEN /\ DictKeys(a) = DictKeys(b)
              /\ \A k \in DictKeys(a) : PyEq(DictGet(a, k), DictGet(b, k))
    ELSE IF a.t = "tuple"
         THEN /\ Len(a.v) = Len(b.v)
              /\ \A i \in 1..Len(a.v) :
                    /\ a.v[i][1] = b.v[i][1]
                    /\ PyEq(a.v[i][2], b.v[i][2])
    ELSE a.v = b.v

FROZEN_TAG == "__frozen__"

RECURSIVE freeze_dict(_)
freeze_dict(obj) ==
    IF obj.t = "dict"
    THEN LET dict_items == Append(obj.v, <<FROZEN_TAG, PyTrue>>)
         IN PyTuple([i \in 1..Len(dict_items) |->
                        <<dict_items[i][1], freeze_dict(dict_items[i][2])>>])
    ELSE obj

\* (FROZEN_TAG, True) in obj
HasMarker(obj) ==
    \E i \in 1..Len(obj.v) : obj.v[i][1] = FROZEN_TAG /\ PyEq(obj.v[i][2], PyTrue)

RECURSIVE unfreeze_dict(_)
unfreeze_dict(obj) ==
    IF obj.t = "tuple" /\ HasMarker(obj)
    THEN LET out == DictFromPairs([i \in 1..Len(obj.v) |->
                                      <<obj.v[i][1], unfreeze_dict(obj.v[i][2])>>])
         IN DictDel(out, FROZEN_TAG)
    ELSE obj

(***************************************************************************)
(* The mappings the codec is run on: string keys (the marker string among  *)
(* them), values strings or nested mappings, down to MaxDepth levels.      *)
(***************************************************************************)
MaxDepth == 2

MaxEntries == 2

CodecKeys == {"a", "b", FROZEN_TAG}

CodecLeaves == {PyStr("x"), PyStr("y")}

DistinctKeys(items) ==
    \A i, j \in 1..Len(items) : i # j => items[i][1] # items[j][1]

\* the dicts of at most n items, keys from ks, values from vals
DictsOver(ks, vals, n) ==
    {PyDict(items) : items \in
        {s \in UNION {[1..k -> ks \X vals] : k \in 0..n} : DistinctKeys(s)}}

RECURSIVE Mappings(_)
Mappings(d) ==
    IF d = 0 THEN {}
    ELSE DictsOver(CodecKeys, CodecLeaves \cup Mappings(d - 1), MaxEntries)

Init_codec ==
    /\ OthersIdle_codec
    /\ c_pc = "start"
    /\ c_obj \in Mappings(MaxDepth)
    /\ c_frozen = Idle
    /\ c_out = Idle

Freeze ==
    /\ c_pc = "start"
    /\ c_frozen' = freeze_dict(c_obj)
    /\ c_pc' = "frozen"
    /\ UNCHANGED <<c_obj, c_out, others_codec>>

Unfreeze ==
    /\ c_pc = "frozen"
    /\ c_out' = unfreeze_dict(c_frozen)
    /\ c_pc' = "done"
    /\ UNCHANGED <<c_obj, c_frozen, others_codec>>

Next_codec == Freeze \/ Unfreeze

SpecCodec == Init_codec /\ [][Next_codec]_vars

\* C5: unfreeze_dict(freeze_dict(m)) == m for every mapping m with string keys,
\* the marker string among the keys, and string or nested-mapping values.
C5_RoundTrip == c_pc = "done" => PyEq(c_out, c_obj)


(***************************************************************************)
(* read_conll.  A file name is the sequence of its pieces, so that         *)
(* file.endswith(suffix) is a test on its last pieces; a path is           *)
(* <<directory, file name>>.  A parsed word is [form, upostag, feats]:     *)
(* upostag None when the column is empty, feats the (key, value) pairs in  *)
(* the file's order (empty when the word has none).  The words of a file   *)
(* carry the file's directory and split in their form.                     *)
(***************************************************************************)
None == "None"

\* a local variable no statement has assigned yet
Unbound == <<>>

Languages == {"en", "de"}

Splits == {"train", "dev", "test"}

FileName(lang, split) == <<lang, "-ud-", split, ".conllu">>

\* a file of the directory that is no split file
OtherFile == <<"README", ".md">>

EndsWith(name, suffix) ==
    /\ Len(name) >= Len(suffix)
    /\ SubSeq(name, Len(name) - Len(suffix) + 1, Len(name)) = suffix

\* the word records the files are made of
WordKinds ==
    { [upostag |-> "NOUN", feats |-> <<<<"Case", "Nom">>, <<"Number", "Sing">>>>],
      [upostag |-> "NOUN", feats |-> <<<<"Number", "Sing">>, <<"Case", "Nom">>>>],
      [upostag |-> "VERB", feats |-> <<>>],
      [upostag |-> None, feats |-> <<<<"Case", "Nom">>>>],
      [upostag |-> None, feats |-> <<>>] }

MaxLangs == 2

MaxSents == 2

\* tgt_size: 0 stands for None (the default) and for 0, both false in "and tgt_size"
MaxTgtSize == 1

\* a file's sentences, one word each
Corpora == UNION {[1..n -> WordKinds] : n \in 1..MaxSents}

\* the directories: for each language the splits it has a file of, at most one
\* file of each split
Listings == [Languages -> SUBSET Splits]

\* os.listdir(treebank_path + "UD_" + code_to_lang[lang])
DirFiles(lang) == {FileName(lang, s) : s \in listdir[lang]} \cup {OtherFile}

\* parse(sent)[0] for each sentence of the file at path
FileSentences(path) ==
    LET split == path[2][3]
    IN [i \in 1..Len(corpus) |->
            <<[form |-> <<path[1], split, i>>,
               upostag |-> corpus[i].upostag,
               feats |-> corpus[i].feats]>>]

PyIn(x, list) == \E i \in 1..Len(list) : PyEq(list[i], x)

\* lines 112-119: the word's tags, features first, then the part of speech
WordTags(word) ==
    LET feats == IF word.feats # <<>>
                 THEN DictFromPairs([i \in 1..Len(word.feats) |->
                        <<word.feats[i][1], PyStr(word.feats[i][2])>>])
                 ELSE EmptyDict
    IN IF word.upostag # None
       THEN IF feats.v # <<>>
            THEN DictSet(feats, "POS", PyStr(word.upostag))
            ELSE PyDict(<<<<"POS", PyStr(word.upostag)>>>>)
       ELSE feats

\* lines 111-127 over the words of one sentence: [text, tags, unique]
RECURSIVE ReadWords(_, _)
ReadWords(sent, uniq) ==
    IF sent = <<>> THEN [text |-> <<>>, tags |-> <<>>, unique |-> uniq]
    ELSE LET n == Len(sent)
             before == ReadWords(SubSeq(sent, 1, n - 1), uniq)
             word_tags == WordTags(sent[n])
             frozen == IF word_tags.v # <<>> THEN freeze_dict(word_tags) ELSE word_tags
             uniq2 == IF word_tags.v # <<>> /\ ~PyIn(frozen, before.unique)
                      THEN Append(before.unique, frozen)
                      ELSE before.unique
         IN [text |-> Append(before.text, sent[n].form),
             tags |-> Append(before.tags, freeze_dict(frozen)),
             unique |-> uniq2]

\* lines 108-130 over the sentences of one file: [data, unique]
RECURSIVE ReadSentences(_, _)
ReadSentences(ud, uniq) ==
    IF ud = <<>> THEN [data |-> <<>>, unique |-> uniq]
    ELSE LET n == Len(ud)
             before == ReadSentences(SubSeq(ud, 1, n - 1), uniq)
             sent == ReadWords(ud[n], before.unique)
         IN [data |-> Append(before.data, <<sent.text, sent.tags>>),
             unique |-> sent.unique]

\* the suffix the loop looks for (lines 82-95)
SoughtSuffix == IF ~test THEN <<"train", ".conllu">> ELSE <<"dev", ".conllu">>

Matching(lang) == {f \in DirFiles(lang) : EndsWith(f, SoughtSuffix)}

Min(a, b) == IF a <= b THEN a ELSE b

Init_conll ==
    /\ OthersIdle_conll
    /\ rc_pc = "loop"
    /\ langs \in UNION {[1..n -> Languages] : n \in 1..MaxLangs}
    /\ train_or_dev \in {"train", "dev"}
    /\ test \in BOOLEAN
    /\ tgt_size \in 0..MaxTgtSize
    /\ listdir \in Listings
    /\ corpus \in Corpora
    /\ lang_idx = 1
    /\ filepath = Unbound
    /\ opened = <<>>
    /\ annot_sents = <<>>
    /\ unique = <<>>

\* one iteration of the loop over langs (lines 78-132) that reaches open(filepath)
ReadLang ==
    /\ rc_pc = "loop"
    /\ lang_idx <= Len(langs)
    /\ LET lang == langs[lang_idx]
           path == IF Matching(lang) # {}
                   THEN <<lang, CHOOSE f \in Matching(lang) : TRUE>>
                   ELSE filepath
           cap == lang = langs[Len(langs)] /\ tgt_size # 0
           all == FileSentences(path)
           size == IF cap THEN Min(tgt_size, Len(all)) ELSE tgt_size
           ud == IF cap THEN SubSeq(all, 1, size) ELSE all
           read == ReadSentences(ud, unique)
       IN /\ path # Unbound
          /\ filepath' = path
          /\ opened' = Append(opened, path)
          /\ tgt_size' = size
          /\ annot_sents' = [l \in DOMAIN annot_sents \cup {lang} |->
                                IF l = lang THEN read.data ELSE annot_sents[l]]
          /\ unique' = read.unique
    /\ lang_idx' = lang_idx + 1
    /\ UNCHANGED <<rc_pc, langs, train_or_dev, test, listdir, corpus, others_conll>>

\* the iteration that finds no file with filepath never assigned: open(filepath)
\* raises UnboundLocalError and the call fails
ReadLangUnbound ==
    /\ rc_pc = "loop"
    /\ lang_idx <= Len(langs)
    /\ Matching(langs[lang_idx]) = {}
    /\ filepath = Unbound
    /\ rc_pc' = "error"
    /\ UNCHANGED <<langs, train_or_dev, test, tgt_size, listdir, corpus, lang_idx,
                   filepath, opened, annot_sents, unique, others_conll>>

\* return annot_sents, unique (line 134)
ReadReturn ==
    /\ rc_pc = "loop"
    /\ lang_idx > Len(langs)
    /\ rc_pc' = "done"
    /\ UNCHANGED <<langs, train_or_dev, test, tgt_size, listdir, corpus, lang_idx,
                   filepath, opened, annot_sents, unique, others_conll>>

Next_conll == ReadLang \/ ReadLangUnbound \/ ReadReturn

SpecConll == Init_conll /\ [][Next_conll]_vars

\* the frozen tag-sets read_conll has put in annot_sents, over all languages
ReturnedTags ==
    UNION {UNION {{annot_sents[l][i][2][j] : j \in 1..Len(annot_sents[l][i][2])} :
                    i \in 1..Len(annot_sents[l])} :
            l \in DOMAIN annot_sents}

\* C6: freeze_dict is canonical: tag-sets of the same content freeze to equal
\* values, so the unique list never holds two entries of the same content.
C6_FreezeCanonical ==
    /\ \A x, y \in ReturnedTags :
            PyEq(unfreeze_dict(x), unfreeze_dict(y)) => PyEq(x, y)
    /\ \A i, j \in 1..Len(unique) :
            i # j => ~PyEq(unfreeze_dict(unique[i]), unfreeze_dict(unique[j]))

\* the split the caller asks for (line 80)
train == IF ~test THEN train_or_dev ELSE "test"

RequestedSuffix == <<train, ".conllu">>

HasRequested(lang) == \E f \in DirFiles(lang) : EndsWith(f, RequestedSuffix)

\* C7: a language whose directory has no file of the required split makes the
\* call fail; no language is given the data of a file of an earlier language.
\* Stated for the requests where the suffix asked for is the suffix looked for
\* (train_or_dev = "train", test off).
C7_MissingFileIsFatal ==
    (train_or_dev = "train" /\ ~test) =>
        /\ rc_pc = "done" => \A i \in 1..Len(langs) : HasRequested(langs[i])
        /\ \A i \in 1..Len(opened) : opened[i][1] = langs[i]

\* C8: the file opened for a language is the file of the requested split, for
\* every combination of train_or_dev and test.  Stated for the directories that
\* hold a file of every split.
C8_OpensRequestedSplit ==
    (\A l \in Languages : listdir[l] = Splits) =>
        \A i \in 1..Len(opened) : EndsWith(opened[i][2], RequestedSuffix)


(***************************************************************************)
(* sortbylength.  A sentence is the sequence of its words; Python's list   *)
(* positions 0..n-1 are the positions 1..n here.                           *)
(***************************************************************************)
MaxData == 4

MaxSrcLen == 2

\* the source sentences of length n
Sentence(n) == [i \in 1..n |-> "w"]

Sources == {Sentence(n) : n \in 0..MaxSrcLen}

\* line 166: the key of the sort
LengthKey(x) == 0 - Len(x[2])

\* sorted(seq, key=LengthKey): Python's sort is stable; x goes behind the
\* elements whose key is not greater than its own
RECURSIVE Sorted(_)
Sorted(seq) ==
    IF seq = <<>> THEN <<>>
    ELSE LET n == Len(seq)
             x == seq[n]
             before == Sorted(SubSeq(seq, 1, n - 1))
             keep == {i \in 1..Len(before) : LengthKey(before[i]) <= LengthKey(x)}
             at == IF keep = {} THEN 0
                   ELSE CHOOSE i \in keep : \A j \in keep : j <= i
         IN SubSeq(before, 1, at) \o <<x>> \o SubSeq(before, at + 1, Len(before))

\* the filter with <= for <: sentences of length maxlen are kept
Permitted_le(item, limit) == Len(item[2]) <= limit

\* lines 167-168: the filter of both comprehensions
Permitted(item, limit) == Len(item[2]) < limit

\* lines 165-168: sort_order
SortOrder(src, limit) ==
    LET indexed_src == [i \in 1..Len(src) |-> <<i, src[i]>>]
        sorted_indexed_src == Sorted(indexed_src)
        kept == SelectSeq(sorted_indexed_src, LAMBDA item : Permitted(item, limit))
    IN [k \in 1..Len(kept) |-> kept[k][1]]

\* lines 165-167: sorted_src
SortedSrc(src, limit) ==
    LET indexed_src == [i \in 1..Len(src) |-> <<i, src[i]>>]
        sorted_indexed_src == Sorted(indexed_src)
        kept == SelectSeq(sorted_indexed_src, LAMBDA item : Permitted(item, limit))
    IN [k \in 1..Len(kept) |-> kept[k][2]]

\* zip(a, b): as long as the shorter
Zip(a, b) == [k \in 1..Min(Len(a), Len(b)) |-> <<a[k], b[k]>>]

Init_sort ==
    /\ OthersIdle_sort
    /\ sb_pc = "start"
    /\ \E n \in 0..MaxData :
          /\ data \in {[i \in 1..n |-> <<src[i], <<"tgt", i>>>>] : src \in [1..n -> Sources]}
          /\ lang_ids \in [1..n -> Languages]
    /\ maxlen \in 0..(MaxSrcLen + 1)
    /\ sort_order = <<>>
    /\ sorted_data = <<>>
    /\ sorted_lang_ids = <<>>

Sortbylength ==
    /\ sb_pc = "start"
    /\ LET src == [i \in 1..Len(data) |-> data[i][1]]
           tgt == [i \in 1..Len(data) |-> data[i][2]]
           order == SortOrder(src, maxlen)
           sorted_src == SortedSrc(src, maxlen)
           sorted_tgt == [k \in 1..Len(order) |-> tgt[order[k]]]
       IN /\ sort_order' = order
          /\ sorted_lang_ids' = [k \in 1..Len(order) |-> lang_ids[order[k]]]
          /\ sorted_data' = Zip(sorted_src, sorted_tgt)
    /\ sb_pc' = "done"
    /\ UNCHANGED <<data, lang_ids, maxlen, others_sort>>

Next_sort == Sortbylength

SpecSort == Init_sort /\ [][Next_sort]_vars

\* the input positions of the sentences shorter than maxlen
Shorter == {i \in 1..Len(data) : Len(data[i][1]) < maxlen}

MaxTrain == 4

MaxBatchSize == 3

MaxStartIdx == 2

\* the test that keeps a batch of batch_size + 1 items together
StartsRange_late(length, prev, counter, size) == length # prev \/ counter > size + 1

\* line 190: the test that starts a new range
StartsRange(length, prev, counter, size) == length # prev \/ counter > size

Init_order ==
    /\ OthersIdle_order
    /\ gto_pc = "loop"
    /\ \E n \in 0..MaxTrain :
          training_data \in {[i \in 1..n |-> <<src[i], <<"tgt", i>>>>] :
                                src \in [1..n -> Sources]}
    /\ gto_batch_size \in 1..MaxBatchSize
    /\ startIdx \in 0..MaxStartIdx
    /\ lengths = [i \in 1..Len(training_data) |-> Len(training_data[i][1])]
    /\ gto_k = 1
    /\ start_idxs = <<>>
    /\ end_idxs = <<>>
    /\ prev_length = -1
    /\ batch_counter = 0
    /\ gto_ret = <<>>

\* lines 188-197
GtoStep ==
    /\ gto_pc = "loop"
    /\ gto_k <= Len(lengths)
    /\ LET i == startIdx + gto_k - 1
           length == lengths[gto_k]
       IN IF StartsRange(length, prev_length, batch_counter, gto_batch_size)
          THEN /\ start_idxs' = Append(start_idxs, i)
               /\ end_idxs' = IF prev_length # -1 THEN Append(end_idxs, i - 1)
                              ELSE end_idxs
               /\ batch_counter' = 1 + 1
               /\ prev_length' = length
          ELSE /\ batch_counter' = batch_counter + 1
               /\ prev_length' = length
               /\ UNCHANGED <<start_idxs, end_idxs>>
    /\ gto_k' = gto_k + 1
    /\ UNCHANGED <<gto_pc, training_data, gto_batch_size, startIdx, lengths, gto_ret,
                   others_order>>

\* lines 199-201
GtoReturn ==
    /\ gto_pc = "loop"
    /\ gto_k > Len(lengths)
    /\ end_idxs' = Append(end_idxs, startIdx + Len(lengths) - 1)
    /\ gto_ret' = Zip(start_idxs, end_idxs')
    /\ gto_pc' = "done"
    /\ UNCHANGED <<training_data, gto_batch_size, startIdx, lengths, gto_k,
                   start_idxs, prev_length, batch_counter, others_order>>

Next_order == GtoStep \/ GtoReturn

SpecOrder == Init_order /\ [][Next_order]_vars

\* the length of the sentence of index p
LengthAt(p) == Len(training_data[p - startIdx + 1][1])

FirstIdx == startIdx

LastIdx == startIdx + Len(training_data) - 1

\* p opens a run: it is the first index or its length differs from the previous
OpensRun(p) == p = FirstIdx \/ LengthAt(p) # LengthAt(p - 1)

\* the index that opens the run p lies in
RunStart(p) == CHOOSE q \in FirstIdx..p :
                  OpensRun(q) /\ \A r \in (q + 1)..p : ~OpensRun(r)

\* the number of items of the run that q opens
RunSize(q) == Cardinality({p \in q..LastIdx : RunStart(p) = q})

CeilDiv(a, b) == (a + b - 1) \div b

\* C3: for n >= 1 the ranges are consecutive and partition
\* [startIdx, startIdx + n - 1]; a range starts exactly where the length changes
\* and after every batch_size items of a run; every range holds items of one
\* length, at most batch_size of them, and a run of s items gives
\* ceil(s / batch_size) ranges.
C3_TrainOrder ==
    (gto_pc = "done" /\ Len(training_data) >= 1) =>
        /\ Len(gto_ret) >= 1
        /\ gto_ret[1][1] = FirstIdx
        /\ gto_ret[Len(gto_ret)][2] = LastIdx
        /\ \A k \in 1..Len(gto_ret) : gto_ret[k][1] <= gto_ret[k][2]
        /\ \A k \in 1..(Len(gto_ret) - 1) : gto_ret[k + 1][1] = gto_ret[k][2] + 1
        /\ {gto_ret[k][1] : k \in 1..Len(gto_ret)} =
              {p \in FirstIdx..LastIdx : (p - RunStart(p)) % gto_batch_size = 0}
        /\ \A k \in 1..Len(gto_ret) :
              /\ gto_ret[k][2] - gto_ret[k][1] + 1 <= gto_batch_size
              /\ \A p \in gto_ret[k][1]..gto_ret[k][2] :
                    LengthAt(p) = LengthAt(gto_ret[k][1])
        /\ \A q \in FirstIdx..LastIdx :
              OpensRun(q) =>
                Cardinality({k \in 1..Len(gto_ret) : RunStart(gto_ret[k][1]) = q})
                    = CeilDiv(RunSize(q), gto_batch_size)

\* a run longer than batch_size is split, and another run follows it
C3_Witness ==
    /\ gto_pc = "done"
    /\ startIdx > 0
    /\ Len(gto_ret) >= 3
    /\ gto_ret[1][2] - gto_ret[1][1] + 1 = gto_batch_size
    /\ gto_batch_size >= 2
    /\ LengthAt(gto_ret[2][1]) = LengthAt(gto_ret[1][1])
    /\ LengthAt(gto_ret[3][1]) # LengthAt(gto_ret[2][1])


(***************************************************************************)
(* make_bucket_batches.  A data item is the tuple <<src, tgt, id>>, id the *)
(* sentence identifier (0-based, as the feature arrays are indexed).  A    *)
(* batch is the list of its tot_items columns, followed by the dict        *)
(* batch_tgt_tags when feature labels are given.  np.random.shuffle may    *)
(* produce any permutation.                                                *)
(***************************************************************************)
MaxItems == 3

Features == {"POS", "Case"}

\* feature_wise_tgt_tags: None, or a dict from feature to the array of the
\* sentences' labels
NoTags == [given |-> FALSE, tags |-> <<>>]

TagTables(n) ==
    {NoTags} \cup
    {[given |-> TRUE, tags |-> [f \in fs |-> [id \in 0..(n - 1) |-> <<f, "label", id>>]]] :
        fs \in SUBSET Features}

Perms(n) == {f \in [1..n -> 1..n] : \A i, j \in 1..n : i # j => f[i] # f[j]}

\* the outcomes of np.random.shuffle(seq) when on is true; seq itself otherwise
Shuffles(seq, on) ==
    IF on THEN {[i \in 1..Len(seq) |-> seq[f[i]]] : f \in Perms(Len(seq))}
    ELSE {seq}

\* the number of batches without the ceiling: the remainder has no batch of
\* its own
NumBatches_floor(len, size) == len \div size

\* line 497: int(np.ceil(len(bucket) * 1.0 / batch_size))
NumBatches(len, size) == (len + size - 1) \div size

\* line 499, i counted from 0
CurBatchSize(i, num_batches, len, size) ==
    IF i < num_batches - 1 THEN size ELSE len - size * i

\* the labels looked up by the position in the batch
BatchTgtTags_byPosition(batch, tags) ==
    [feat \in DOMAIN tags |->
        [j \in 1..Len(batch[Len(batch)]) |-> tags[feat][j - 1]]]

\* lines 503-507: the labels of the batch's sentences, batch[-1] their ids
BatchTgtTags(batch, tags) ==
    [feat \in DOMAIN tags |->
        [j \in 1..Len(batch[Len(batch)]) |-> tags[feat][batch[Len(batch)][j]]]]

\* lines 499-509: batch number i (from 0) of a bucket
MakeBatch(bucket, i, size, fields, fwtt) ==
    LET num_batches == NumBatches(Len(bucket), size)
        cur_batch_size == CurBatchSize(i, num_batches, Len(bucket), size)
        batch == [k \in 1..fields |->
                    [j \in 1..cur_batch_size |-> bucket[i * size + j][k]]]
    IN IF fwtt.given THEN Append(batch, BatchTgtTags(batch, fwtt.tags)) ELSE batch

\* lines 497-513: the batches of one bucket
BucketBatches(bucket, size, fields, fwtt) ==
    [b \in 1..NumBatches(Len(bucket), size) |->
        MakeBatch(bucket, b - 1, size, fields, fwtt)]

\* the keys of a dict of buckets in insertion order: the lengths in the order of
\* their first item
RECURSIVE BucketKeys(_)
BucketKeys(items) ==
    IF items = <<>> THEN <<>>
    ELSE LET n == Len(items)
             before == BucketKeys(SubSeq(items, 1, n - 1))
             len == Len(items[n][1])
         IN IF \E i \in 1..Len(before) : before[i] = len THEN before
            ELSE Append(before, len)

Init_bucket ==
    /\ OthersIdle_bucket
    /\ mb_pc = "start"
    /\ \E n \in 0..MaxItems :
          /\ data_collections \in
                {[i \in 1..n |-> <<src[i], <<"tgt", i>>, i - 1>>] :
                    src \in [1..n -> Sources]}
          /\ feature_wise_tgt_tags \in TagTables(n)
    /\ mb_batch_size \in 1..MaxBatchSize
    /\ shuffle \in BOOLEAN
    /\ tot_items = 0
    /\ buckets = <<>>
    /\ bucket_keys = <<>>
    /\ batches = <<>>

\* line 485 on an empty input: data_collections[0] raises IndexError
MbEmpty ==
    /\ mb_pc = "start"
    /\ data_collections = <<>>
    /\ mb_pc' = "error"
    /\ UNCHANGED <<data_collections, feature_wise_tgt_tags, mb_batch_size, shuffle,
                   tot_items, buckets, bucket_keys, batches, others_bucket>>

\* lines 483-490
MbBuckets ==
    /\ mb_pc = "start"
    /\ data_collections # <<>>
    /\ tot_items' = Len(data_collections[1])
    /\ bucket_keys' = BucketKeys(data_collections)
    /\ buckets' = [len \in {Len(data_collections[i][1]) : i \in 1..Len(data_collections)} |->
                     SelectSeq(data_collections, LAMBDA item : Len(item[1]) = len)]
    /\ mb_pc' = "batching"
    /\ UNCHANGED <<data_collections, feature_wise_tgt_tags, mb_batch_size, shuffle,
                   batches, others_bucket>>

\* lines 492-513: one iteration of the loop over the buckets; bucket_keys holds
\* the lengths the loop has yet to visit
MbBatchBucket ==
    /\ mb_pc = "batching"
    /\ bucket_keys # <<>>
    /\ LET src_len == Head(bucket_keys)
       IN \E bucket \in Shuffles(buckets[src_len], shuffle) :
             /\ buckets' = [buckets EXCEPT ![src_len] = bucket]
             /\ batches' = batches \o BucketBatches(bucket, mb_batch_size, tot_items,
                                                    feature_wise_tgt_tags)
    /\ bucket_keys' = Tail(bucket_keys)
    /\ UNCHANGED <<mb_pc, data_collections, feature_wise_tgt_tags, mb_batch_size,
                   shuffle, tot_items, others_bucket>>

\* lines 515-517
MbReturn ==
    /\ mb_pc = "batching"
    /\ bucket_keys = <<>>
    /\ batches' \in Shuffles(batches, shuffle)
    /\ mb_pc' = "done"
    /\ UNCHANGED <<data_collections, feature_wise_tgt_tags, mb_batch_size, shuffle,
                   tot_items, buckets, bucket_keys, others_bucket>>

Next_bucket == MbEmpty \/ MbBuckets \/ MbBatchBucket \/ MbReturn

SpecBucket == Init_bucket /\ [][Next_bucket]_vars

\* the number of items of a batch
BatchLen(batch) == Len(batch[1])

\* the j-th member of a batch: its fields, read across the columns
Member(batch, j) == [k \in 1..tot_items |-> batch[k][j]]

\* how often item x is a member of one of the batches
Occurrences(x) ==
    Cardinality({<<b, j>> \in (1..Len(batches)) \X (1..Len(data_collections)) :
                    j <= BatchLen(batches[b]) /\ Member(batches[b], j) = x})

RECURSIVE TotalLen(_)
TotalLen(bs) == IF bs = <<>> THEN 0 ELSE BatchLen(Head(bs)) + TotalLen(Tail(bs))

\* C1: the batches returned partition the input items: every item is in exactly
\* one batch, every batch holds 1..batch_size items, all of one source length.
C1_BatchesPartition ==
    mb_pc = "done" =>
        /\ TotalLen(batches) = Len(data_collections)
        /\ \A i \in 1..Len(data_collections) : Occurrences(data_collections[i]) = 1
        /\ \A b \in 1..Len(batches) :
              /\ BatchLen(batches[b]) \in 1..mb_batch_size
              /\ \A k \in 1..tot_items : Len(batches[b][k]) = BatchLen(batches[b])
              /\ \A j \in 1..BatchLen(batches[b]) :
                    Len(batches[b][1][j]) = Len(batches[b][1][1])

\* a shuffled bucket of three items split into a batch of batch_size and the
\* remainder, the remainder batch moved to the front
C1_Witness ==
    /\ mb_pc = "done"
    /\ shuffle
    /\ Len(data_collections) = 3
    /\ Len(bucket_keys) = 0 /\ Cardinality(DOMAIN buckets) = 1
    /\ mb_batch_size = 2
    /\ Len(batches) = 2
    /\ BatchLen(batches[1]) = 1
    /\ BatchLen(batches[2]) = 2
    /\ batches[2][tot_items][1] > batches[2][tot_items][2]

\* C2: with feature labels given, every batch carries for every feature f and
\* position j the label feature_wise_tgt_tags[f][id_j], id_j the identifier
\* (last field) of the batch's j-th member, which is an input item.
C2_TagsFollowSentence ==
    feature_wise_tgt_tags.given =>
        \A b \in 1..Len(batches) :
            LET batch == batches[b]
                batch_tgt_tags == batch[tot_items + 1]
            IN /\ Len(batch) = tot_items + 1
               /\ DOMAIN batch_tgt_tags = DOMAIN feature_wise_tgt_tags.tags
               /\ \A f \in DOMAIN batch_tgt_tags :
                     /\ Len(batch_tgt_tags[f]) = BatchLen(batch)
                     /\ \A j \in 1..BatchLen(batch) :
                           /\ \E i \in 1..Len(data_collections) :
                                 Member(batch, j) = data_collections[i]
                           /\ batch_tgt_tags[f][j] =
                                 feature_wise_tgt_tags.tags[f][Member(batch, j)[tot_items]]

\* labels of two features, after both shuffles moved the sentences
C2_Witness ==
    /\ mb_pc = "done"
    /\ shuffle
    /\ feature_wise_tgt_tags.given
    /\ DOMAIN feature_wise_tgt_tags.tags = Features
    /\ Len(batches) = 2
    /\ BatchLen(batches[1]) = 2
    /\ batches[1][tot_items] = <<2, 1>>
    /\ batches[2][tot_items] = <<0>>
    /\ batches[1][tot_items + 1]["POS"] = <<<<"POS", "label", 2>>, <<"POS", "label", 1>>>>


(***************************************************************************)
(* logMax.  A matrix is the sequence of its rows.  The entries are integer *)
(* log-values and the arithmetic is exact: exp and log are taken to the    *)
(* base 2, where the exponential of an integer is a rational number        *)
(* <<numerator, denominator>> and the logarithm of a power of 2 is an      *)
(* integer.                                                                *)
(***************************************************************************)
MaxMagnitude == 1

\* the log-values of the entries
LogValues == (0 - MaxMagnitude)..1

\* the numbers of rows and of columns
Dims == {1, 2}

Matrices(rows, cols) == [1..rows -> [1..cols -> LogValues]]

\* redAxis: 0 stands for None, the default
RedAxes == {0, 1}

Rows(m) == Len(m)

Cols(m) == Len(m[1])

\* m.transpose()
Transpose(m) == [j \in 1..Cols(m) |-> [i \in 1..Rows(m) |-> m[i][j]]]

Max(S) == CHOOSE x \in S : \A y \in S : y <= x

\* np.amax(m)
Amax(m) == Max({m[i][j] : i \in 1..Rows(m), j \in 1..Cols(m)})

RECURSIVE Pow2(_)
Pow2(n) == IF n = 0 THEN 1 ELSE 2 * Pow2(n - 1)

\* np.exp(x), exactly
Exp(x) == IF x >= 0 THEN <<Pow2(x), 1>> ELSE <<1, Pow2(0 - x)>>

\* the product of two rationals
Times(p, q) == <<p[1] * q[1], p[2] * q[2]>>

\* p <= q for rationals of positive denominator
Leq(p, q) == p[1] * q[2] <= q[1] * p[2]

\* np.max over a set of rationals
RatMax(S) == CHOOSE p \in S : \A q \in S : Leq(q, p)

\* the exponent of a power of 2
RECURSIVE Log2(_)
Log2(n) == IF n = 1 THEN 0 ELSE 1 + Log2(n \div 2)

\* np.log(p), exactly, for p a power of 2
Log(p) == Log2(p[1]) - Log2(p[2])

\* line 357 adding back max_a alone
LogMaxKernel_dropMaxB(a, b, axis) ==
    LET bt == IF axis = 1 THEN Transpose(b) ELSE b
        max_a == Amax(a)
        max_b == Amax(bt)
        C == [i \in 1..Rows(a) |-> [j \in 1..Cols(bt) |->
                Log(RatMax({Times(Exp(a[i][k] - max_a), Exp(bt[k][j] - max_b)) :
                            k \in 1..Cols(a)}))]]
    IN [i \in 1..Rows(C) |-> [j \in 1..Cols(C) |-> C[i][j] + max_a]]

\* lines 344-357: C before the final transposition
LogMaxKernel(a, b, axis) ==
    LET bt == IF axis = 1 THEN Transpose(b) ELSE b
        max_a == Amax(a)
        max_b == Amax(bt)
        C == [i \in 1..Rows(a) |-> [j \in 1..Cols(bt) |->
                Log(RatMax({Times(Exp(a[i][k] - max_a), Exp(bt[k][j] - max_b)) :
                            k \in 1..Cols(a)}))]]
    IN [i \in 1..Rows(C) |-> [j \in 1..Cols(C) |-> C[i][j] + max_a + max_b]]

\* lines 342-359
logMax(a, b, axis) ==
    IF axis = 1 THEN Transpose(LogMaxKernel(a, b, axis)) ELSE LogMaxKernel(a, b, axis)

Init_logmax ==
    /\ OthersIdle_logmax
    /\ lm_pc = "start"
    /\ redAxis \in RedAxes
    /\ \E n \in Dims, m \in Dims, p \in Dims :
          /\ lm_a \in Matrices(n, m)
          /\ lm_b \in IF redAxis = 1 THEN Matrices(p, m) ELSE Matrices(m, p)
    /\ lm_C = <<>>

LogMax ==
    /\ lm_pc = "start"
    /\ lm_C' = logMax(lm_a, lm_b, redAxis)
    /\ lm_pc' = "done"
    /\ UNCHANGED <<lm_a, lm_b, redAxis, others_logmax>>

Next_logmax == LogMax

SpecLogMax == Init_logmax /\ [][Next_logmax]_vars

\* the max-plus product of x (n by m) and y (m by p)
MaxPlus(x, y) ==
    [i \in 1..Rows(x) |-> [j \in 1..Cols(y) |->
        Max({x[i][k] + y[k][j] : k \in 1..Cols(x)})]]

\* C9: in exact arithmetic logMax(A, B) is the max-plus product of A and B, and
\* with redAxis = 1 the transpose of the max-plus product of A and B transposed.
C9_LogMaxIsMaxPlus ==
    lm_pc = "done" =>
        lm_C = IF redAxis = 1 THEN Transpose(MaxPlus(lm_a, Transpose(lm_b)))
               ELSE MaxPlus(lm_a, lm_b)

\* a product with redAxis = 1 of matrices that are not square, where the maximum
\* of a cell is not reached at the first k
C9_Witness ==
    /\ lm_pc = "done"
    /\ redAxis = 1
    /\ Rows(lm_a) = 1 /\ Cols(lm_a) = 2
    /\ Rows(lm_b) = 2
    /\ Rows(lm_C) = 2 /\ Cols(lm_C) = 1
    /\ lm_C[1][1] # lm_C[2][1]
    /\ lm_a[1][1] + lm_b[2][1] < lm_C[2][1]


(***************************************************************************)
(* computeF1, with baseline and write_results off.  A tag mapping is a     *)
(* function from the tags it holds to their labels.  The divisions are     *)
(* exact: a quotient is the rational <<numerator, denominator>>, and a     *)
(* division by zero raises ZeroDivisionError; f_line is the line that      *)
(* raised.                                                                 *)
(***************************************************************************)
MaxWords == 2

\* the most (word, tag) places that hold a label in hyps or in golds
MaxTagged == 2

F1Keys == {"POS", "Case"}

\* the order in which a word's items are visited
F1KeyOrder == <<"POS", "Case">>

F1Labels == {"NULL", "_", "NOUN"}

Absent == "absent"

\* what hyps and golds hold at one (word, tag) place: a label or nothing, not
\* nothing in both
Places == {c \in (F1Labels \cup {Absent}) \X (F1Labels \cup {Absent}) :
              c # <<Absent, Absent>>}

\* the list of tag mappings that side (1: hyps, 2: golds) of a filling gives
TagLists(n, filling, side) ==
    [i \in 1..n |->
        [k \in {t \in F1Keys : <<i, t>> \in DOMAIN filling /\ filling[<<i, t>>][side] # Absent}
            |-> filling[<<i, k>>][side]]]

\* the (word, tag) items of a list in the order the loops visit them
RECURSIVE Items(_, _)
Items(list, n) ==
    IF n = 0 THEN <<>>
    ELSE Items(list, n - 1) \o
         SelectSeq([j \in 1..Len(F1KeyOrder) |-> <<n, F1KeyOrder[j]>>],
                   LAMBDA it : it[2] \in DOMAIN list[n])

\* f[k] = 0 for a new key k
WithKey(f, k) == IF k \in DOMAIN f THEN f
                 ELSE [x \in DOMAIN f \cup {k} |-> IF x = k THEN 0 ELSE f[x]]

\* f[k] += 1
Incr(f, k) == [f EXCEPT ![k] = f[k] + 1]

\* the precision loop counting a prediction only when gold has its tag
RECURSIVE PrecisionTally_inside(_)
PrecisionTally_inside(items) ==
    IF items = <<>> THEN [scores |-> <<>>, total |-> <<>>]
    ELSE LET n == Len(items)
             acc == PrecisionTally_inside(SubSeq(items, 1, n - 1))
             i == items[n][1]
             k == items[n][2]
             v == hyps[i][k]
             scores == WithKey(acc.scores, k)
             total == WithKey(acc.total, k)
         IN IF v = "NULL" THEN acc
            ELSE IF k \in DOMAIN golds[i]
                 THEN [scores |-> IF v = golds[i][k] THEN Incr(scores, k) ELSE scores,
                       total |-> Incr(total, k)]
                 ELSE [scores |-> scores, total |-> total]

\* lines 398-408: f1_precision_scores and f1_precision_total after the loop
RECURSIVE PrecisionTally(_)
PrecisionTally(items) ==
    IF items = <<>> THEN [scores |-> <<>>, total |-> <<>>]
    ELSE LET n == Len(items)
             acc == PrecisionTally(SubSeq(items, 1, n - 1))
             i == items[n][1]
             k == items[n][2]
             v == hyps[i][k]
             scores == WithKey(acc.scores, k)
             total == WithKey(acc.total, k)
         IN IF v = "NULL" THEN acc
            ELSE [scores |-> IF k \in DOMAIN golds[i] /\ v = golds[i][k]
                             THEN Incr(scores, k) ELSE scores,
                  total |-> Incr(total, k)]

\* lines 418-428: f1_recall_scores and f1_recall_total after the loop
RECURSIVE RecallTally(_)
RecallTally(items) ==
    IF items = <<>> THEN [scores |-> <<>>, total |-> <<>>]
    ELSE LET n == Len(items)
             acc == RecallTally(SubSeq(items, 1, n - 1))
             i == items[n][1]
             k == items[n][2]
             v == golds[i][k]
             scores == WithKey(acc.scores, k)
             total == WithKey(acc.total, k)
         IN IF v = "_" THEN acc
            ELSE [scores |-> IF k \in DOMAIN hyps[i] /\ v = hyps[i][k]
                             THEN Incr(scores, k) ELSE scores,
                  total |-> Incr(total, k)]

\* sum(f.values())
RECURSIVE SumValues(_)
SumValues(f) ==
    IF DOMAIN f = {} THEN 0
    ELSE LET k == CHOOSE x \in DOMAIN f : TRUE
         IN f[k] + SumValues([x \in DOMAIN f \ {k} |-> f[x]])

\* exact arithmetic on rationals of positive denominator
Plus(p, q) == <<p[1] * q[2] + q[1] * p[2], p[2] * q[2]>>

Over(p, q) == <<p[1] * q[2], p[2] * q[1]>>

IsZero(p) == p[1] = 0

RatEq(p, q) == p[1] * q[2] = q[1] * p[2]

\* lines 439-443: the harmonic mean
HarmonicMean(p, r) == Over(Times(<<2, 1>>, Times(p, r)), Plus(p, r))

Init_f1 ==
    /\ OthersIdle_f1
    /\ f_pc = "precision"
    /\ \E n \in 0..MaxWords :
          \E places \in {P \in SUBSET ((1..n) \X F1Keys) : Cardinality(P) <= MaxTagged} :
             \E filling \in [places -> Places] :
                /\ hyps = TagLists(n, filling, 1)
                /\ golds = TagLists(n, filling, 2)
    /\ f1_precision_scores = <<>>
    /\ f1_precision_total = <<>>
    /\ f1_recall_scores = <<>>
    /\ f1_recall_total = <<>>
    /\ f1_micro_precision = <<0, 1>>
    /\ f1_micro_recall = <<0, 1>>
    /\ f1_scores = <<>>
    /\ f1_average = <<0, 1>>
    /\ f1_micro_score = <<0, 1>>
    /\ f_line = 0

\* raise ZeroDivisionError at a line
Raise(line) ==
    /\ f_pc' = "error"
    /\ f_line' = line

\* lines 397-415
F1Precision ==
    /\ f_pc = "precision"
    /\ LET tally == PrecisionTally(Items(hyps, Len(hyps)))
       IN IF SumValues(tally.total) = 0
          THEN /\ Raise(410)
               /\ f1_precision_scores' = tally.scores
               /\ f1_precision_total' = tally.total
               /\ UNCHANGED f1_micro_precision
          ELSE IF \E k \in DOMAIN tally.scores : tally.total[k] = 0
          THEN /\ Raise(415)
               /\ f1_precision_scores' = tally.scores
               /\ f1_precision_total' = tally.total
               /\ f1_micro_precision' = <<SumValues(tally.scores), SumValues(tally.total)>>
          ELSE /\ f1_micro_precision' = <<SumValues(tally.scores), SumValues(tally.total)>>
               /\ f1_precision_scores' =
                     [k \in DOMAIN tally.scores |-> <<tally.scores[k], tally.total[k]>>]
               /\ f1_precision_total' = tally.total
               /\ f_pc' = "recall"
               /\ UNCHANGED f_line
    /\ UNCHANGED <<hyps, golds, f1_recall_scores, f1_recall_total, f1_micro_recall,
                   f1_scores, f1_average, f1_micro_score, others_f1>>

\* lines 417-430
F1Recall ==
    /\ f_pc = "recall"
    /\ LET tally == RecallTally(Items(golds, Len(golds)))
       IN /\ f1_recall_scores' = tally.scores
          /\ f1_recall_total' = tally.total
          /\ IF SumValues(tally.total) = 0
             THEN /\ Raise(430)
                  /\ UNCHANGED f1_micro_recall
             ELSE /\ f1_micro_recall' = <<SumValues(tally.scores), SumValues(tally.total)>>
                  /\ f_pc' = "scores"
                  /\ UNCHANGED f_line
    /\ UNCHANGED <<hyps, golds, f1_precision_scores, f1_precision_total,
                   f1_micro_precision, f1_scores, f1_average, f1_micro_score, others_f1>>

\* line 434 for tag k
TagRecall(k) == <<f1_recall_scores[k], f1_recall_total[k]>>

\* line 436
NoF1(k) == IsZero(TagRecall(k)) \/ k \notin DOMAIN f1_precision_scores

\* lines 436-443 for tag k
TagF1(k) == IF NoF1(k) THEN <<0, 1>>
            ELSE HarmonicMean(f1_precision_scores[k], TagRecall(k))

\* line 445 over the tags of ks
RECURSIVE WeightedSum(_)
WeightedSum(ks) ==
    IF ks = {} THEN <<0, 1>>
    ELSE LET k == CHOOSE x \in ks : TRUE
         IN Plus(WeightedSum(ks \ {k}), Times(<<f1_recall_total[k], 1>>, TagF1(k)))

\* lines 432-447
F1Scores ==
    /\ f_pc = "scores"
    /\ LET ks == DOMAIN f1_recall_scores
       IN IF \E k \in ks : f1_recall_total[k] = 0
          THEN /\ Raise(434)
               /\ UNCHANGED <<f1_recall_scores, f1_scores, f1_average>>
          ELSE IF \E k \in ks :
                    ~NoF1(k) /\ IsZero(Plus(f1_precision_scores[k], TagRecall(k)))
          THEN /\ Raise(442)
               /\ UNCHANGED <<f1_recall_scores, f1_scores, f1_average>>
          ELSE IF SumValues(f1_recall_total) = 0
          THEN /\ Raise(447)
               /\ UNCHANGED <<f1_recall_scores, f1_scores, f1_average>>
          ELSE /\ f1_recall_scores' = [k \in ks |-> TagRecall(k)]
               /\ f1_scores' = [k \in ks |-> TagF1(k)]
               /\ f1_average' = Over(WeightedSum(ks), <<SumValues(f1_recall_total), 1>>)
               /\ f_pc' = "micro"
               /\ UNCHANGED f_line
    /\ UNCHANGED <<hyps, golds, f1_precision_scores, f1_precision_total,
                   f1_recall_total, f1_micro_precision, f1_micro_recall,
                   f1_micro_score, others_f1>>

\* lines 448-460
F1Micro ==
    /\ f_pc = "micro"
    /\ IF IsZero(Plus(f1_micro_precision, f1_micro_recall))
       THEN /\ Raise(451)
            /\ UNCHANGED f1_micro_score
       ELSE /\ f1_micro_score' = HarmonicMean(f1_micro_precision, f1_micro_recall)
            /\ f_pc' = "done"
            /\ UNCHANGED f_line
    /\ UNCHANGED <<hyps, golds, f1_precision_scores, f1_precision_total,
                   f1_recall_scores, f1_recall_total, f1_micro_precision,
                   f1_micro_recall, f1_scores, f1_average, others_f1>>

Next_f1 == F1Precision \/ F1Recall \/ F1Scores \/ F1Micro

SpecF1 == Init_f1 /\ [][Next_f1]_vars

\* the (word, tag) places of a list
PlacesOf(list) == {<<i, k>> \in (1..Len(list)) \X F1Keys : k \in DOMAIN list[i]}

\* (a) no predicted entry has a value other than "NULL"
NoPrediction == \A <<i, k>> \in PlacesOf(hyps) : hyps[i][k] = "NULL"

\* (b) no gold entry has a value other than "_"
NoGold == \A <<i, k>> \in PlacesOf(golds) : golds[i][k] = "_"

\* the pooled numerators of precision and of recall
PrecisionHits ==
    Cardinality({<<i, k>> \in PlacesOf(hyps) :
        hyps[i][k] # "NULL" /\ k \in DOMAIN golds[i] /\ hyps[i][k] = golds[i][k]})

RecallHits ==
    Cardinality({<<i, k>> \in PlacesOf(golds) :
        golds[i][k] # "_" /\ k \in DOMAIN hyps[i] /\ golds[i][k] = hyps[i][k]})

\* (c) both pooled numerators are 0
NoHit == PrecisionHits = 0 /\ RecallHits = 0

\* C10: no per-tag division has a zero denominator (every tag with a precision
\* or a recall entry has a total >= 1, and no division of lines 415, 434, 442
\* or 447 raises); the call raises exactly when (a), (b) or (c) holds, at the
\* pooled divisions of lines 410, 430 and 451, and returns (macro F1, micro F1)
\* otherwise.
C10_DivisionByZero ==
    /\ \A k \in DOMAIN f1_precision_total : f1_precision_total[k] >= 1
    /\ \A k \in DOMAIN f1_recall_total : f1_recall_total[k] >= 1
    /\ f_pc = "error" => f_line \in {410, 430, 451} /\ (NoPrediction \/ NoGold \/ NoHit)
    /\ f_pc = "error" =>
          /\ f_line = 410 <=> NoPrediction
          /\ f_line = 430 <=> ~NoPrediction /\ NoGold
          /\ f_line = 451 <=> ~NoPrediction /\ ~NoGold /\ NoHit
    /\ f_pc = "done" => ~(NoPrediction \/ NoGold \/ NoHit)

\* the call returns with a tag of F1 0 (no precision entry) beside a tag of F1 1
C10_Witness ==
    /\ f_pc = "done"
    /\ Len(hyps) = 2
    /\ DOMAIN f1_scores = F1Keys
    /\ IsZero(f1_scores["Case"])
    /\ "Case" \notin DOMAIN f1_precision_scores
    /\ RatEq(f1_scores["POS"], <<1, 1>>)
    /\ RatEq(f1_average, <<1, 2>>)
    /\ ~RatEq(f1_micro_score, f1_average)

=============================================================================
